---------------------------- MODULE Spec2Model ----------------------------
(***************************************************************************)
(* A model of the Py7TDMI instruction interpreter (src/Py7TDMI.py) and of  *)
(* its variant that keeps the program counter in regs[15]                  *)
(* (src/PyTDMI7.py).                                                       *)
(*                                                                         *)
(* Representation of machine integers.  TLC's integers are 32-bit signed,  *)
(* so a 32-bit unsigned value v is kept as the pair <<hi, lo>> of its two  *)
(* 16-bit halves (v = hi * 2^16 + lo), and a 64-bit signed value (the      *)
(* int64 that the loop variable pc and the shifter's result have) as the   *)
(* triple <<ext, hi, lo>> with v = ext * 2^32 + hi * 2^16 + lo.  All       *)
(* arithmetic keeps the width the source gives it: a store into the uint32 *)
(* register array truncates to 32 bits, "& 0xFFFFFFFF" drops ext.          *)
(*                                                                         *)
(* Memory is the byte array of the CPU, memLen bytes long.  It is kept as  *)
(* a function from the addresses of its non-zero bytes to those bytes;     *)
(* every other address below memLen holds 0.                               *)
(***************************************************************************)
EXTENDS Integers, Sequences, FiniteSets, TLC

VARIABLES
    memory,     \* self.memory: the non-zero bytes of the uint8 array
    memLen,     \* len(self.memory), fixed at construction
    regs,       \* self.regs: the uint32 array of 16 registers (mutated in place)
    self_pc,    \* self.pc (Py7TDMI.py only)
    self_cpsr,  \* self.cpsr
    thumb,      \* self.thumb
    pc,         \* the loop variable pc of jit_full_cpu (an int64)
    cpsr,       \* the loop variable cpsr of jit_full_cpu
    count,      \* iterations of "for _ in range(n)" still to run
    mode,       \* "idle": no call in progress; "running": inside jit_full_cpu;
                \* "crashed": the call was aborted by an out-of-bounds access
    calls,      \* number of step_batch calls made so far
    ub,         \* TRUE once an access outside the buffer has happened
    last,       \* what the last loop iteration did (fetched word, pre-state)
    whole,      \* the reference run: one single step_batch over all cycles
    call,       \* the last call made: of step_batch, the n and the state of
                \* the object at entry; of check_condition or barrel_shift,
                \* the arguments and, once it has returned, the result
    variant     \* the source file the object's class is of: "Py7TDMI" has
                \* self.pc, "PyTDMI7" keeps the program counter in regs[15]

vars == <<memory, memLen, regs, self_pc, self_cpsr, thumb, pc, cpsr, count,
          mode, calls, ub, last, whole, call, variant>>

-----------------------------------------------------------------------------
(* 32-bit words as <<hi, lo>>                                              *)

Half == 2 ^ 16

u32(hi, lo) == <<hi, lo>>

ZERO == u32(0, 0)

MASK32 == u32(\hFFFF, \hFFFF)

\* bit i (0..31) of the word w: (w >> i) & 1
BitOf(w, i) == IF i < 16 THEN (w[2] \div (2 ^ i)) % 2
                         ELSE (w[1] \div (2 ^ (i - 16))) % 2

\* the bits of w as a function 0..31 -> {0, 1}
ToBits(w) == [i \in 0 .. 31 |-> BitOf(w, i)]

RECURSIVE PackBits(_, _, _)
\* the number whose bit k is b[from + k], for k < n
PackBits(b, from, n) ==
    IF n = 0 THEN 0 ELSE b[from] + 2 * PackBits(b, from + 1, n - 1)

FromBits(b) == u32(PackBits(b, 16, 16), PackBits(b, 0, 16))

\* (w >> from) & (2^n - 1) as a number, n <= 24
Bits(w, from, n) == PackBits(ToBits(w), from, n)

And32(a, b) == FromBits([i \in 0 .. 31 |-> BitOf(a, i) * BitOf(b, i)])

Or32(a, b) ==
    FromBits([i \in 0 .. 31 |-> IF BitOf(a, i) + BitOf(b, i) > 0 THEN 1 ELSE 0])

Xor32(a, b) == FromBits([i \in 0 .. 31 |-> (BitOf(a, i) + BitOf(b, i)) % 2])

\* (~a) & 0xFFFFFFFF
Not32(a) == u32(\hFFFF - a[1], \hFFFF - a[2])

\* a variant that saturates at 0xFFFFFFFF instead of wrapping around
Add32_saturating(a, b, c) ==
    LET lo == a[2] + b[2] + c
        hi == a[1] + b[1] + (lo \div Half)
    IN  IF hi >= Half THEN u32(\hFFFF, \hFFFF) ELSE u32(hi, lo % Half)

\* (a + b + c) & 0xFFFFFFFF
Add32(a, b, c) ==
    LET lo == a[2] + b[2] + c
        hi == a[1] + b[1] + (lo \div Half)
    IN  u32(hi % Half, lo % Half)

\* (a - b - c) & 0xFFFFFFFF
Sub32(a, b, c) ==
    LET lo == a[2] - b[2] - c
        hi == a[1] - b[1] + (lo \div Half)
    IN  u32(hi % Half, lo % Half)

\* a << 31 for a bit a
Shl31(a) == u32(a * \h8000, 0)

\* a << 30 for a bit a
Shl30(a) == u32(a * \h4000, 0)

-----------------------------------------------------------------------------
(* 64-bit signed values as <<ext, hi, lo>>                                 *)

i64(w) == <<0, w[1], w[2]>>

\* v & 0xFFFFFFFF, and the truncation of a store into the uint32 array
Low32(v) == u32(v[2], v[3])

\* v + k for a small k >= 0, without wraparound at 2^32
AddI64(v, k) ==
    LET lo == v[3] + k
        hi == v[2] + (lo \div Half)
    IN  <<v[1] + (hi \div Half), hi % Half, lo % Half>>

\* the value as an index into the buffer: a number when it is below 2^31,
\* -1 when it is not (a buffer is shorter than 2^31 bytes, so such an index
\* is outside it)
Index(v) == IF v[1] # 0 \/ v[2] >= \h8000 THEN -1 ELSE v[2] * Half + v[3]

-----------------------------------------------------------------------------
(* Condition check: check_condition(cond, cpsr)                            *)

\* a variant that takes the reserved code 15 as "never", as the ARM7TDMI
\* itself does
check_condition_never(cond, c) ==
    LET N == BitOf(c, 31)
        Z == BitOf(c, 30)
        C == BitOf(c, 29)
        V == BitOf(c, 28)
    IN  CASE cond = 0  -> Z = 1
          [] cond = 1  -> Z = 0
          [] cond = 2  -> C = 1
          [] cond = 3  -> C = 0
          [] cond = 4  -> N = 1
          [] cond = 5  -> N = 0
          [] cond = 6  -> V = 1
          [] cond = 7  -> V = 0
          [] cond = 8  -> C = 1 /\ Z = 0
          [] cond = 9  -> C = 0 \/ Z = 1
          [] cond = 10 -> N = V
          [] cond = 11 -> N # V
          [] cond = 12 -> Z = 0 /\ N = V
          [] cond = 13 -> Z = 1 \/ N # V
          [] cond = 14 -> TRUE
          [] OTHER     -> FALSE

check_condition(cond, c) ==
    LET N == BitOf(c, 31)
        Z == BitOf(c, 30)
        C == BitOf(c, 29)
        V == BitOf(c, 28)
    IN  CASE cond = 0  -> Z = 1
          [] cond = 1  -> Z = 0
          [] cond = 2  -> C = 1
          [] cond = 3  -> C = 0
          [] cond = 4  -> N = 1
          [] cond = 5  -> N = 0
          [] cond = 6  -> V = 1
          [] cond = 7  -> V = 0
          [] cond = 8  -> C = 1 /\ Z = 0
          [] cond = 9  -> C = 0 \/ Z = 1
          [] cond = 10 -> N = V
          [] cond = 11 -> N # V
          [] cond = 12 -> Z = 0 /\ N = V
          [] cond = 13 -> Z = 1 \/ N # V
          [] OTHER     -> TRUE

-----------------------------------------------------------------------------
(* Barrel shifter: barrel_shift(val, shift_type, shift_amount, cpsr), for  *)
(* a 32-bit val and shift_amount in 0..31.  The result is an int64: the    *)
(* ASR branch shifts np.int32(val) and does not mask, so it is negative    *)
(* when bit 31 of val is set.                                              *)

\* a variant without the RRX case: ROR by 0 leaves the value and the carry
\* as they are
barrel_shift_no_rrx(val, shift_type, shift_amount, c) ==
    LET C == BitOf(c, 29)
        n == shift_amount
        v == ToBits(val)
        lsl == FromBits([i \in 0 .. 31 |-> IF i >= n THEN v[i - n] ELSE 0])
        lsr == FromBits([i \in 0 .. 31 |-> IF i + n <= 31 THEN v[i + n] ELSE 0])
        asr == FromBits([i \in 0 .. 31 |-> IF i + n <= 31 THEN v[i + n] ELSE v[31]])
        ror == FromBits([i \in 0 .. 31 |-> v[(i + n) % 32]])
    IN  CASE shift_type = 0 ->
               IF n = 0 THEN [result |-> i64(val), carry |-> C]
                        ELSE [result |-> i64(lsl), carry |-> v[32 - n]]
          [] shift_type = 1 ->
               IF n = 0 THEN [result |-> i64(ZERO), carry |-> v[31]]
                        ELSE [result |-> i64(lsr), carry |-> v[n - 1]]
          [] shift_type = 2 ->
               IF n = 0
               THEN [result |-> i64(IF v[31] = 1 THEN MASK32 ELSE ZERO),
                     carry |-> v[31]]
               ELSE [result |-> <<0 - v[31], asr[1], asr[2]>>,
                     carry |-> v[n - 1]]
          [] shift_type = 3 ->
               IF n = 0 THEN [result |-> i64(val), carry |-> C]
                        ELSE [result |-> i64(ror), carry |-> v[n - 1]]
          [] OTHER -> [result |-> i64(val), carry |-> C]

barrel_shift(val, shift_type, shift_amount, c) ==
    LET C == BitOf(c, 29)
        n == shift_amount
        v == ToBits(val)
        lsl == FromBits([i \in 0 .. 31 |-> IF i >= n THEN v[i - n] ELSE 0])
        lsr == FromBits([i \in 0 .. 31 |-> IF i + n <= 31 THEN v[i + n] ELSE 0])
        asr == FromBits([i \in 0 .. 31 |-> IF i + n <= 31 THEN v[i + n] ELSE v[31]])
        ror == FromBits([i \in 0 .. 31 |-> v[(i + n) % 32]])
        rrx == FromBits([i \in 0 .. 31 |-> IF i = 31 THEN C ELSE v[i + 1]])
    IN  CASE shift_type = 0 ->
               IF n = 0 THEN [result |-> i64(val), carry |-> C]
                        ELSE [result |-> i64(lsl), carry |-> v[32 - n]]
          [] shift_type = 1 ->
               IF n = 0 THEN [result |-> i64(ZERO), carry |-> v[31]]
                        ELSE [result |-> i64(lsr), carry |-> v[n - 1]]
          [] shift_type = 2 ->
               IF n = 0
               THEN [result |-> i64(IF v[31] = 1 THEN MASK32 ELSE ZERO),
                     carry |-> v[31]]
               ELSE [result |-> <<0 - v[31], asr[1], asr[2]>>,
                     carry |-> v[n - 1]]
          [] shift_type = 3 ->
               IF n = 0 THEN [result |-> i64(rrx), carry |-> v[0]]
                        ELSE [result |-> i64(ror), carry |-> v[n - 1]]
          [] OTHER -> [result |-> i64(val), carry |-> C]

-----------------------------------------------------------------------------
(* Memory: the uint8 array                                                 *)

MemRead(mem, a) == IF a \in DOMAIN mem THEN mem[a] ELSE 0

MemWrite(mem, a, b) ==
    IF b = 0
    THEN [x \in (DOMAIN mem) \ {a} |-> mem[x]]
    ELSE [x \in (DOMAIN mem) \cup {a} |-> IF x = a THEN b ELSE mem[x]]

InBuf(len, a) == a >= 0 /\ a < len

\* memory[a]: the byte when a is inside the buffer; outside it the read is
\* unchecked and yields whatever byte lies there (j)
Load8(mem, len, a, j) == IF InBuf(len, a) THEN MemRead(mem, a) ELSE j

\* memory[a] = b: inside the buffer the byte is written; outside it the
\* unchecked write lands beyond the array and leaves the array as it was
Store8(mem, len, a, b) == IF InBuf(len, a) THEN MemWrite(mem, a, b) ELSE mem

\* b0 | (b1 << 8) | (b2 << 16) | (b3 << 24)
Word(b0, b1, b2, b3) == u32(b2 + 256 * b3, b0 + 256 * b1)

-----------------------------------------------------------------------------
(* One iteration of the loop of jit_full_cpu (src/Py7TDMI.py)              *)

\* a variant whose thumb fetch reads a whole word
fetch_word(mem, len, p, th, j) ==
    LET b(k) == Load8(mem, len, Index(AddI64(p, k)), j[k + 1])
    IN  Word(b(0), b(1), b(2), b(3))

\* the fetch: the instruction word read at pc; outside the buffer the
\* unchecked reads yield the bytes of j
fetch(mem, len, p, th, j) ==
    LET b(k) == Load8(mem, len, Index(AddI64(p, k)), j[k + 1])
    IN  IF th THEN Word(b(0), b(1), 0, 0)
              ELSE Word(b(0), b(1), b(2), b(3))

\* the fetch width: pc += 2 in thumb mode, pc += 4 otherwise
fetch_width(th) == IF th THEN 2 ELSE 4

\* TRUE when the fetch at pc reads a byte outside the buffer
fetch_oob(len, p, th) ==
    \E k \in 0 .. (fetch_width(th) - 1) : ~InBuf(len, Index(AddI64(p, k)))

\* a variant that never looks at imm_flag
operand2_register(instr, r) == r[Bits(instr, 0, 4)]

\* val2 = imm if imm_flag else regs[rm]
operand2(instr, r) ==
    IF Bits(instr, 25, 1) = 1 THEN u32(0, Bits(instr, 0, 12))
                              ELSE r[Bits(instr, 0, 4)]

\* the if/elif chain over opcode: the value of result
dp_result(opcode, a, val2, carry_in) ==
    CASE opcode = 0  -> And32(a, val2)
      [] opcode = 1  -> Xor32(a, val2)
      [] opcode = 2  -> Sub32(a, val2, 0)
      [] opcode = 3  -> Sub32(val2, a, 0)
      [] opcode = 4  -> Add32(a, val2, 0)
      [] opcode = 5  -> Add32(a, val2, carry_in)
      [] opcode = 6  -> Sub32(a, val2, 1 - carry_in)
      [] opcode = 7  -> Sub32(val2, a, 1 - carry_in)
      [] opcode = 8  -> And32(a, val2)
      [] opcode = 9  -> Xor32(a, val2)
      [] opcode = 10 -> Sub32(a, val2, 0)
      [] opcode = 11 -> Add32(a, val2, 0)
      [] opcode = 12 -> Or32(a, val2)
      [] opcode = 13 -> val2
      [] opcode = 14 -> And32(a, Not32(val2))
      [] opcode = 15 -> Not32(val2)

\* a variant that puts the sign into bit 29, the place of C
update_flags_sign_as_carry(c, result) ==
    Or32(Or32(And32(c, u32(\h0FFF, \hFFFF)), u32(BitOf(result, 31) * \h2000, 0)),
         Shl30(IF result = ZERO THEN 1 ELSE 0))

\* a variant that puts the sign into bit 30 and the zero test into bit 31
update_flags_swapped(c, result) ==
    Or32(Or32(And32(c, u32(\h0FFF, \hFFFF)), Shl30(BitOf(result, 31))),
         Shl31(IF result = ZERO THEN 1 ELSE 0))

\* cpsr = (cpsr & 0x0FFFFFFF) | ((result >> 31) << 31) | ((result == 0) << 30)
update_flags(c, result) ==
    Or32(Or32(And32(c, u32(\h0FFF, \hFFFF)), Shl31(BitOf(result, 31))),
         Shl30(IF result = ZERO THEN 1 ELSE 0))

\* a variant that updates the flags before the condition is checked
condition_failed_after_flags(c) == update_flags(c, ZERO)

\* "if not check_condition(cond, cpsr): continue": the cpsr a skipped
\* iteration leaves
condition_failed(c) == c

\* a variant whose list of test-only opcodes misses CMN
writes_rd_cmn(opcode) == opcode \notin {8, 9, 10}

\* "if opcode not in [0x8,0x9,0xA,0xB]": the destination register is written
writes_rd(opcode) == opcode \notin {8, 9, 10, 11}

\* offset = instr & 0x00FFFFFF; if offset & 0x00800000: offset |= 0xFF000000
branch_offset(instr) ==
    LET offset == And32(instr, u32(\h00FF, \hFFFF))
    IN  IF And32(offset, u32(\h0080, 0)) # ZERO
        THEN Or32(offset, u32(\hFF00, 0))
        ELSE offset

\* (p + (offset << 2)) & 0xFFFFFFFF, for the 32-bit p = pc & 0xFFFFFFFF
branch_target(p, offset) ==
    LET o == ToBits(offset)
        shifted == FromBits([i \in 0 .. 31 |-> IF i >= 2 THEN o[i - 2] ELSE 0])
    IN  Add32(p, shifted, 0)

\* the four byte reads of LDR at addr, composed little-endian
load_word(mem, len, addr, j) ==
    LET b(k) == Load8(mem, len, Index(AddI64(i64(addr), k)), j[k + 1])
    IN  Word(b(0), b(1), b(2), b(3))

\* the four byte writes of STR at addr, in program order
store_word(mem, len, addr, val) ==
    LET a(k) == Index(AddI64(i64(addr), k))
        m0 == Store8(mem, len, a(0), Bits(val, 0, 8))
        m1 == Store8(m0, len, a(1), Bits(val, 8, 8))
        m2 == Store8(m1, len, a(2), Bits(val, 16, 8))
    IN  Store8(m2, len, a(3), Bits(val, 24, 8))

\* TRUE when a word access at addr touches a byte outside the buffer
word_oob(len, addr) ==
    \E k \in 0 .. 3 : ~InBuf(len, Index(AddI64(i64(addr), k)))

\* The iteration from the state (mem, r, p, c): the state it leaves, the word
\* it fetched, whether the condition passed, and whether it accessed a byte
\* outside the buffer (oob), with the registers and the memory as they were
\* at the first such access (atOob).
jit_full_cpu(mem, len, r, p, c, th, j) ==
    LET instr == fetch(mem, len, p, th, j)
        pc1 == AddI64(p, fetch_width(th))
        cond == Bits(instr, 28, 4)
        opcode == Bits(instr, 21, 4)
        rd == Bits(instr, 12, 4)
        rn == Bits(instr, 16, 4)
        val2 == operand2(instr, r)
        carry_in == BitOf(c, 29)
        result == dp_result(opcode, r[rn], val2, carry_in)
        r1 == IF writes_rd(opcode) THEN [r EXCEPT ![rd] = result] ELSE r
        c1 == update_flags(c, result)
        class == Bits(instr, 24, 4)
        target == i64(branch_target(Low32(pc1), branch_offset(instr)))
        addr == r1[rn]
        skipped == [memory |-> mem, regs |-> r, pc |-> pc1,
                    cpsr |-> condition_failed(c),
                    instr |-> instr, passed |-> FALSE,
                    oob |-> fetch_oob(len, p, th),
                    atOob |-> [regs |-> r, memory |-> mem]]
        done(m2, r2, p2, dataOob) ==
            [memory |-> m2, regs |-> r2, pc |-> p2, cpsr |-> c1,
             instr |-> instr, passed |-> TRUE,
             oob |-> fetch_oob(len, p, th) \/ dataOob,
             atOob |-> IF fetch_oob(len, p, th)
                       THEN [regs |-> r, memory |-> mem]
                       ELSE [regs |-> r1, memory |-> m2]]
    IN  IF ~check_condition(cond, c) THEN skipped
        ELSE IF class = 10 THEN done(mem, r1, target, FALSE)
        ELSE IF class = 11
             THEN done(mem, [r1 EXCEPT ![14] = Low32(pc1)], target, FALSE)
        ELSE IF Bits(instr, 26, 2) = 1
             THEN IF Bits(instr, 20, 1) = 1
                  THEN done(mem,
                            [r1 EXCEPT ![rd] = load_word(mem, len, addr, j)],
                            pc1, word_oob(len, addr))
                  ELSE done(store_word(mem, len, addr, r1[rd]), r1, pc1,
                            word_oob(len, addr))
        ELSE done(mem, r1, pc1, FALSE)

-----------------------------------------------------------------------------
(* One iteration of the loop of jit_full_cpu (src/PyTDMI7.py): the program *)
(* counter is regs[15].  The decode and the data-processing chain are the  *)
(* same text as in src/Py7TDMI.py and use the operators above.             *)

\* regs[15] = pc+2 in thumb mode, regs[15] = pc+4 otherwise (a uint32 store)
T7_advance(r, th) == [r EXCEPT ![15] = Add32(r[15], u32(0, fetch_width(th)), 0)]

\* the B and BL branches: regs[14] = regs[15] for BL, then
\* regs[15] = (regs[15] + (offset << 2)) & 0xFFFFFFFF
T7_branch(r, instr, link) ==
    LET r2 == IF link THEN [r EXCEPT ![14] = r[15]] ELSE r
    IN  [r2 EXCEPT ![15] = branch_target(r2[15], branch_offset(instr))]

T7_jit_full_cpu(mem, len, r, c, th, j) ==
    LET p == i64(r[15])
        instr == fetch(mem, len, p, th, j)
        r0 == T7_advance(r, th)
        cond == Bits(instr, 28, 4)
        opcode == Bits(instr, 21, 4)
        rd == Bits(instr, 12, 4)
        rn == Bits(instr, 16, 4)
        val2 == operand2(instr, r0)
        carry_in == BitOf(c, 29)
        result == dp_result(opcode, r0[rn], val2, carry_in)
        r1 == IF writes_rd(opcode) THEN [r0 EXCEPT ![rd] = result] ELSE r0
        c1 == update_flags(c, result)
        class == Bits(instr, 24, 4)
        addr == r1[rn]
        skipped == [memory |-> mem, regs |-> r0, pc |-> p,
                    cpsr |-> condition_failed(c),
                    instr |-> instr, passed |-> FALSE,
                    oob |-> fetch_oob(len, p, th),
                    atOob |-> [regs |-> r, memory |-> mem]]
        done(m2, r2, dataOob) ==
            [memory |-> m2, regs |-> r2, pc |-> p, cpsr |-> c1,
             instr |-> instr, passed |-> TRUE,
             oob |-> fetch_oob(len, p, th) \/ dataOob,
             atOob |-> IF fetch_oob(len, p, th)
                       THEN [regs |-> r, memory |-> mem]
                       ELSE [regs |-> r1, memory |-> m2]]
    IN  IF ~check_condition(cond, c) THEN skipped
        ELSE IF class = 10 THEN done(mem, T7_branch(r1, instr, FALSE), FALSE)
        ELSE IF class = 11 THEN done(mem, T7_branch(r1, instr, TRUE), FALSE)
        ELSE IF Bits(instr, 26, 2) = 1
             THEN IF Bits(instr, 20, 1) = 1
                  THEN done(mem,
                            [r1 EXCEPT ![rd] = load_word(mem, len, addr, j)],
                            word_oob(len, addr))
                  ELSE done(store_word(mem, len, addr, r1[rd]), r1,
                            word_oob(len, addr))
        ELSE done(mem, r1, FALSE)

-----------------------------------------------------------------------------
(* The CPU object and step_batch (src/Py7TDMI.py)                          *)

\* MaxBatch bounds the n of a step_batch(n) call, MaxCalls the number of
\* successive calls (SpecBatch), MemLen the length of the memory buffer.
MaxBatch == 2

MaxCalls == 2

MemLen == 16

\* what unchecked reads outside the buffer may yield, byte by byte: zeros,
\* a repeated byte, or the bytes of a valid instruction (MOV R0,#1)
Junk == {<<0, 0, 0, 0>>, <<\hEA, \hEA, \hEA, \hEA>>, <<\h01, \h00, \hA0, \hE3>>}

NoJunk == <<0, 0, 0, 0>>

NoLast == [kind |-> "none"]

\* what a loop iteration leaves in last: the state it started from and what
\* it fetched
Record(kind, out) ==
    [kind |-> kind, instr |-> out.instr, passed |-> out.passed,
     regs |-> regs, pc |-> pc, cpsr |-> cpsr, memory |-> memory,
     count |-> count, oob |-> out.oob]

NoCall == [fn |-> "none"]

\* what a step_batch(n) call leaves in call: n and the state it starts from
\* (p is the program counter at entry)
Entry(n, p) ==
    [fn |-> "step_batch", n |-> n, regs |-> regs, pc |-> p,
     cpsr |-> self_cpsr, memory |-> memory]

\* self.regs, self.pc, self.cpsr = jit_full_cpu(...): entry into the call
step_batch_call(n) ==
    /\ mode = "idle"
    /\ mode' = "running"
    /\ calls' = calls + 1
    /\ count' = n
    /\ pc' = self_pc
    /\ cpsr' = self_cpsr
    /\ last' = NoLast
    /\ call' = Entry(n, self_pc)
    /\ UNCHANGED <<memory, memLen, regs, self_pc, self_cpsr, thumb, ub, variant>>

\* one iteration of "for _ in range(n)" that runs to its end
cycle ==
    /\ mode = "running"
    /\ count > 0
    /\ \E out0 \in {jit_full_cpu(memory, memLen, regs, pc, cpsr, thumb, NoJunk)} :
         \E j \in (IF out0.oob THEN Junk ELSE {NoJunk}) :
           \E out \in {jit_full_cpu(memory, memLen, regs, pc, cpsr, thumb, j)} :
                 /\ memory' = out.memory
                 /\ regs' = out.regs
                 /\ pc' = out.pc
                 /\ cpsr' = out.cpsr
                 /\ ub' = (ub \/ out.oob)
                 /\ last' = Record("cycle", out)
    /\ count' = count - 1
    /\ UNCHANGED <<memLen, self_pc, self_cpsr, thumb, mode, calls, call, variant>>

\* an iteration whose access outside the buffer ends the call (a crash of
\* the process, or the IndexError of a bounds-checked build): the in-place
\* writes made so far stay, the call never returns
abort ==
    /\ mode = "running"
    /\ count > 0
    /\ jit_full_cpu(memory, memLen, regs, pc, cpsr, thumb, NoJunk).oob
    /\ \E j \in Junk :
         \E out \in {jit_full_cpu(memory, memLen, regs, pc, cpsr, thumb, j)} :
             /\ out.oob
             /\ memory' = out.atOob.memory
             /\ regs' = out.atOob.regs
             /\ last' = Record("abort", out)
    /\ mode' = "crashed"
    /\ ub' = TRUE
    /\ UNCHANGED <<memLen, self_pc, self_cpsr, thumb, pc, cpsr, count, calls,
                   call, variant>>

\* a variant that takes only regs and cpsr from the call, as the
\* step_batch of src/PyTDMI7.py does, and leaves self.pc as it was
step_batch_return_without_pc ==
    /\ mode = "running"
    /\ count = 0
    /\ mode' = "idle"
    /\ self_cpsr' = cpsr
    /\ UNCHANGED <<memory, memLen, regs, self_pc, thumb, pc, cpsr, count, calls,
                   ub, last, call, variant>>

\* return regs, pc, cpsr and the assignment to self.regs, self.pc, self.cpsr
step_batch_return ==
    /\ mode = "running"
    /\ count = 0
    /\ mode' = "idle"
    /\ self_pc' = pc
    /\ self_cpsr' = cpsr
    /\ UNCHANGED <<memory, memLen, regs, thumb, pc, cpsr, count, calls, ub, last,
                   call, variant>>

-----------------------------------------------------------------------------
(* Initial states: a CPU object whose registers, CPSR and PC the caller    *)
(* has set, over a memory image holding one instruction word at PC and a   *)
(* data word                                                               *)

\* the instruction word with the given condition, bits 27..20, Rn, Rd and
\* bits 11..0
Enc(cond, cls, rn, rd, low12) ==
    u32(cond * 4096 + cls * 16 + rn, rd * 4096 + low12)

RECURSIVE PutBytes(_, _, _, _)
\* the bytes written from address a on, as far as they lie in the buffer
PutBytes(mem, len, a, bytes) ==
    IF bytes = <<>> THEN mem
    ELSE PutBytes(Store8(mem, len, a, Head(bytes)), len, a + 1, Tail(bytes))

BytesOf(w) == <<Bits(w, 0, 8), Bits(w, 8, 8), Bits(w, 16, 8), Bits(w, 24, 8)>>

EmptyMem == [x \in {} |-> 0]

\* the address and the content of the data word of the image
DataAddr == MemLen - 4

DataWord == u32(\h1234, \h5678)

\* the image of len bytes: DataWord at DataAddr, then w at address a
Image(len, a, w) ==
    PutBytes(PutBytes(EmptyMem, len, DataAddr, BytesOf(DataWord)),
             len, a, BytesOf(w))

RegFile(v0, v1) ==
    [i \in 0 .. 15 |-> IF i = 0 THEN v0 ELSE IF i = 1 THEN v1 ELSE ZERO]

\* the flags N, Z, C, V given as a number 0..15, over the low bits
Flags(nzcv, low) == u32(nzcv * 4096, low)

InitWith(instrs, r0s, r1s, cpsrs, pcs, thumbs) ==
    /\ memLen = MemLen
    /\ \E w \in instrs, a \in pcs :
         /\ memory = Image(MemLen, a, w)
         /\ self_pc = <<0, 0, a>>
    /\ \E v0 \in r0s, v1 \in r1s : regs = RegFile(v0, v1)
    /\ self_cpsr \in cpsrs
    /\ thumb \in thumbs
    /\ pc = <<0, 0, 0>>
    /\ cpsr = ZERO
    /\ count = 0
    /\ mode = "idle"
    /\ calls = 0
    /\ ub = FALSE
    /\ last = NoLast
    /\ whole = NoLast
    /\ call = NoCall
    /\ variant = "Py7TDMI"

\* an object over a program of two words at address 0, about to run from
\* there
InitProgram(programs, r0s, r1s, cpsrs, thumbs) ==
    /\ memLen = MemLen
    /\ \E prog \in programs :
         memory = PutBytes(Image(MemLen, 0, prog[1]), MemLen, 4, BytesOf(prog[2]))
    /\ \E v0 \in r0s, v1 \in r1s : regs = RegFile(v0, v1)
    /\ self_pc = <<0, 0, 0>>
    /\ self_cpsr \in cpsrs
    /\ thumb \in thumbs
    /\ pc = <<0, 0, 0>>
    /\ cpsr = ZERO
    /\ count = 0
    /\ mode = "idle"
    /\ calls = 0
    /\ ub = FALSE
    /\ last = NoLast
    /\ whole = NoLast
    /\ call = NoCall
    /\ variant = "Py7TDMI"

SomeFlags == {Flags(f, 0) : f \in {0, 3, 4, 15}} \cup {Flags(6, \h1F)}

AllFlags == {Flags(f, 0) : f \in 0 .. 15}

\* data-processing words, condition AL: every opcode, S and I, with
\* operand 2 = #1 or R1 (low12 = 1) and #0xA1 or R1, LSR #1 (low12 = 0xA1)
DPInstrs ==
    {Enc(14, i * 32 + op * 2 + s, 0, 1, low) :
        i \in 0 .. 1, op \in 0 .. 15, s \in 0 .. 1, low \in {\h001, \h0A1}}

\* data-processing words whose Rd is Rn, R14 or R15
DPInstrsRd ==
    {Enc(14, i * 32 + op * 2 + s, 0, rd, 1) :
        i \in 0 .. 1, op \in 0 .. 15, s \in 0 .. 1, rd \in {0, 14, 15}}

\* every condition, on ADD R1,R0,#1, MOVS R1,#1, STR R1,[R0] and B
CondInstrs ==
    {Enc(c, cls, 0, 1, 1) : c \in 0 .. 15, cls \in {\h28, \h3B, \h58, \hA0}}

\* B and BL with offsets of both signs, and words of no modelled class
BranchInstrs ==
    {Enc(14, cls, rn, rd, low) :
        cls \in {\hA0, \hA7, \hAF, \hB0, \hB7, \hBF, \h80, \hE0, \hF0},
        rn \in {0, 15}, rd \in {0, 14, 15}, low \in {\h000, \h001, \hFFE}}

\* single data transfers: the eight P/U/B/W/L shapes below, register and
\* immediate form
LdStInstrs ==
    {Enc(14, cls, rn, rd, low) :
        cls \in {\h58, \h59, \h48, \h49, \h50, \h51, \h78, \h79},
        rn \in {0, 1}, rd \in {0, 1, 2}, low \in {\h000, \h001}}

\* 16-bit words fetched in thumb mode
ThumbInstrs == {u32(0, h) : h \in {\h0000, \h1001, \hE3A0, \hFFFF}}

\* SUB R1,R0,#v; CMP R1,#0
SubCmp(v) == <<Enc(14, \h24, 0, 1, v), Enc(14, \h35, 1, 0, 0)>>

\* ADD Rt,Ra,Rb; SUB Ru,Rt,Rb
AddSub(ra, rb, rt, ru) == <<Enc(14, \h08, ra, rt, rb), Enc(14, \h04, rt, ru, rb)>>

\* the register choices of AddSub: Ra and Rb are R0 and R1 either way, Rt
\* is Ra or another register, Ru is Ra, Rt or another register
AddSubPrograms ==
    {AddSub(q[1], 1 - q[1], q[2], q[3]) :
        q \in {q \in {0, 1} \X {0, 1, 2} \X {0, 1, 2, 3, 14} :
                  q[2] # 1 - q[1] /\ q[3] # 1 - q[1]}}

AddSubValues ==
    {u32(0, 1), MASK32, u32(\h8000, 0), u32(\h7FFF, \hFFFF),
     u32(\hCAFE, \h0001)}

\* whole words met in thumb mode: MOV R0,#5; MOVS R1,#0; STR R1,[R0]; BL
ThumbWords ==
    {u32(\hE3A0, \h0005), u32(\hE3B0, \h1000), u32(\hE580, \h1000),
     u32(\hEB00, \h0001)}

Init ==
    \/ InitWith(DPInstrs,
                {MASK32, u32(\h7FFF, \hFFFF), ZERO},
                {u32(0, 1), u32(\h8000, 0)},
                SomeFlags, {0}, {FALSE})
    \/ InitWith(DPInstrsRd, {MASK32}, {u32(0, 1)},
                {Flags(0, 0), Flags(3, 0)}, {0}, {FALSE})
    \/ InitWith(CondInstrs, {u32(0, DataAddr)}, {u32(0, 1)},
                AllFlags, {0}, {FALSE})
    \/ InitWith(BranchInstrs, {u32(0, DataAddr)}, {u32(0, 1)},
                {Flags(0, 0), Flags(3, 0)}, {0, 4}, {FALSE})
    \/ InitWith(LdStInstrs,
                {u32(0, DataAddr), u32(0, MemLen - 2), MASK32},
                {u32(0, 4), u32(\hCAFE, \h0001)},
                {Flags(0, 0), Flags(3, 0)}, {0}, {FALSE})
    \/ InitWith({Enc(14, \h3A, 0, 0, 5), Enc(0, \h3A, 0, 0, 5)},
                {u32(0, DataAddr)}, {u32(0, 1)}, {Flags(0, 0), Flags(4, 0)},
                {MemLen - 4, MemLen - 3, MemLen - 1, MemLen}, {FALSE})
    \/ InitWith(ThumbInstrs, {u32(0, DataAddr)}, {u32(0, 1)},
                {Flags(0, 0), Flags(4, 0)}, {0, 2, MemLen - 1}, {TRUE})
    \/ InitWith(ThumbWords, {u32(0, DataAddr)}, {u32(\hCAFE, \h0001)},
                {Flags(0, 0), Flags(11, \h1F), Flags(4, 0)}, {0, 4}, {TRUE})
    \/ \E v \in 0 .. 255 :
         InitProgram({SubCmp(v)}, {u32(0, v)}, {u32(0, 1)},
                     {Flags(11, 0)}, {FALSE})
    \/ InitProgram(AddSubPrograms, AddSubValues, AddSubValues, {Flags(0, 0)},
                   {FALSE})

\* one step_batch(n) call from each initial state
Next ==
    \/ \E n \in 1 .. MaxBatch : calls = 0 /\ step_batch_call(n) /\ UNCHANGED whole
    \/ cycle /\ UNCHANGED whole
    \/ abort /\ UNCHANGED whole
    \/ step_batch_return /\ UNCHANGED whole

Spec == Init /\ [][Next]_vars

-----------------------------------------------------------------------------
(* Successive step_batch calls (src/Py7TDMI.py) beside the reference run:  *)
(* whole is the state of one single call that runs every iteration made so *)
(* far, from the same initial state, and the list ns of the n of the calls *)

StateOf(out) ==
    [memory |-> out.memory, regs |-> out.regs, pc |-> out.pc, cpsr |-> out.cpsr]

\* one more iteration of the reference run
Advance(w) ==
    [ns |-> w.ns] @@
    StateOf(jit_full_cpu(w.memory, memLen, w.regs, w.pc, w.cpsr, thumb, NoJunk))

\* SUBS R0,R0,#1; ADD R1,R1,R0; BNE to address 0 (from address 4);
\* STR R1,[R0]; LDR R1,[R0]; BL to the next word
BatchInstrs ==
    {u32(\hE250, \h0001), u32(\hE081, \h1000), u32(\h1AFF, \hFFFE),
     u32(\hE580, \h1000), u32(\hE590, \h1000), u32(\hEB00, \h0000)}

InitBatch ==
    /\ memLen = MemLen
    /\ \E w0 \in BatchInstrs, w1 \in BatchInstrs :
         memory = PutBytes(Image(MemLen, 0, w0), MemLen, 4, BytesOf(w1))
    /\ \E v0 \in {u32(0, 1), u32(0, 4)} : regs = RegFile(v0, u32(\hCAFE, \h0001))
    /\ self_pc = <<0, 0, 0>>
    /\ self_cpsr \in {Flags(0, 0), Flags(4, 0)}
    /\ thumb = FALSE
    /\ pc = <<0, 0, 0>>
    /\ cpsr = ZERO
    /\ count = 0
    /\ mode = "idle"
    /\ calls = 0
    /\ ub = FALSE
    /\ last = NoLast
    /\ whole = [memory |-> memory, regs |-> regs, pc |-> self_pc,
                cpsr |-> self_cpsr, ns |-> <<>>]
    /\ call = NoCall
    /\ variant = "Py7TDMI"

\* up to MaxCalls calls; a run is followed up to its first access outside
\* the buffer
NextBatch ==
    \/ \E n \in 0 .. MaxBatch :
         /\ calls < MaxCalls
         /\ ~ub
         /\ step_batch_call(n)
         /\ whole' = [whole EXCEPT !.ns = Append(@, n)]
    \/ ~ub /\ cycle /\ whole' = Advance(whole)
    \/ abort /\ UNCHANGED whole
    \/ step_batch_return /\ UNCHANGED whole

SpecBatch == InitBatch /\ [][NextBatch]_vars

\* C10: whenever no call is in progress and no access left the buffer, the
\* registers, pc, cpsr and memory of the object are those of the single call
\* step_batch(a + b + ...) from the same initial state.
C10_BatchesCompose ==
    (mode = "idle" /\ ~ub) =>
        /\ regs = whole.regs
        /\ self_pc = whole.pc
        /\ self_cpsr = whole.cpsr
        /\ memory = whole.memory

\* after step_batch(1) and step_batch(2), three iterations that changed
\* registers, flags and memory
C10_Witness ==
    /\ mode = "idle" /\ ~ub
    /\ whole.ns = <<1, 2>>
    /\ self_pc # <<0, 0, 0>>
    /\ regs[0] = ZERO
    /\ self_cpsr = Flags(4, 0)
    /\ MemRead(memory, 0) # \h01

-----------------------------------------------------------------------------
(* The CPU object and step_batch of src/PyTDMI7.py: there is no self.pc,   *)
(* the variable pc holds the iteration's local pc = regs[15]               *)

\* self.regs, self.cpsr = jit_full_cpu(...): entry into the call
T7_step_batch_call(n) ==
    /\ mode = "idle"
    /\ mode' = "running"
    /\ calls' = calls + 1
    /\ count' = n
    /\ cpsr' = self_cpsr
    /\ last' = NoLast
    /\ call' = Entry(n, i64(regs[15]))
    /\ UNCHANGED <<memory, memLen, regs, self_pc, self_cpsr, thumb, pc, ub,
                   variant>>

T7_cycle ==
    /\ mode = "running"
    /\ count > 0
    /\ \E out0 \in {T7_jit_full_cpu(memory, memLen, regs, cpsr, thumb, NoJunk)} :
         \E j \in (IF out0.oob THEN Junk ELSE {NoJunk}) :
           \E out \in {T7_jit_full_cpu(memory, memLen, regs, cpsr, thumb, j)} :
                 /\ memory' = out.memory
                 /\ regs' = out.regs
                 /\ pc' = out.pc
                 /\ cpsr' = out.cpsr
                 /\ ub' = (ub \/ out.oob)
                 /\ last' = Record("cycle", out)
    /\ count' = count - 1
    /\ UNCHANGED <<memLen, self_pc, self_cpsr, thumb, mode, calls, call, variant>>

T7_abort ==
    /\ mode = "running"
    /\ count > 0
    /\ T7_jit_full_cpu(memory, memLen, regs, cpsr, thumb, NoJunk).oob
    /\ \E j \in Junk :
         \E out \in {T7_jit_full_cpu(memory, memLen, regs, cpsr, thumb, j)} :
             /\ out.oob
             /\ memory' = out.atOob.memory
             /\ regs' = out.atOob.regs
             /\ last' = Record("abort", out)
    /\ mode' = "crashed"
    /\ ub' = TRUE
    /\ UNCHANGED <<memLen, self_pc, self_cpsr, thumb, pc, cpsr, count, calls,
                   call, variant>>

\* return regs, cpsr and the assignment to self.regs, self.cpsr
T7_step_batch_return ==
    /\ mode = "running"
    /\ count = 0
    /\ mode' = "idle"
    /\ self_cpsr' = cpsr
    /\ UNCHANGED <<memory, memLen, regs, self_pc, thumb, pc, cpsr, count, calls,
                   ub, last, call, variant>>

T7_InitWith(instrs, r0s, r1s, cpsrs, pcs, thumbs) ==
    /\ memLen = MemLen
    /\ \E w \in instrs, a \in pcs, v0 \in r0s, v1 \in r1s :
         /\ memory = Image(MemLen, a, w)
         /\ regs = [RegFile(v0, v1) EXCEPT ![15] = u32(0, a)]
    /\ self_pc = <<0, 0, 0>>
    /\ self_cpsr \in cpsrs
    /\ thumb \in thumbs
    /\ pc = <<0, 0, 0>>
    /\ cpsr = ZERO
    /\ count = 0
    /\ mode = "idle"
    /\ calls = 0
    /\ ub = FALSE
    /\ last = NoLast
    /\ whole = NoLast
    /\ call = NoCall
    /\ variant = "PyTDMI7"

\* BL and B words with offsets of both signs, under two conditions
T7_BranchInstrs ==
    {Enc(c, cls, rn, rd, low) :
        c \in {0, 14}, cls \in {\hB0, \hB7, \hB8, \hBF, \hA0, \hAF},
        rn \in {0, 15}, rd \in {0, 14, 15}, low \in {\h000, \h001, \hFFF}}

InitT7 ==
    \/ T7_InitWith(T7_BranchInstrs, {u32(0, DataAddr)}, {u32(0, 1)},
                   {Flags(0, 0), Flags(7, 0)}, {0, 4, 8}, {FALSE})
    \/ T7_InitWith({Enc(14, \h3A, 0, 0, 5), Enc(14, \h59, 0, 1, 0),
                    Enc(14, \h58, 0, 1, 0), Enc(14, \h1A, 0, 15, 1)},
                   {u32(0, DataAddr), MASK32}, {u32(0, 1)},
                   {Flags(0, 0)}, {0, MemLen - 1}, {FALSE, TRUE})

NextT7 ==
    \/ \E n \in 1 .. MaxBatch : calls = 0 /\ T7_step_batch_call(n) /\ UNCHANGED whole
    \/ T7_cycle /\ UNCHANGED whole
    \/ T7_abort /\ UNCHANGED whole
    \/ T7_step_batch_return /\ UNCHANGED whole

SpecT7 == InitT7 /\ [][NextT7]_vars

-----------------------------------------------------------------------------
(* A constructed object: ARM7TDMI(memory_array) over the array mem of len  *)
(* bytes, with self.thumb as the caller has set it after construction      *)

\* self.pc = np.uint32(0x08000000)
ResetPC == u32(\h0800, 0)

Constructed(v, mem, len, th) ==
    /\ variant = v
    /\ memory = mem
    /\ memLen = len
    /\ regs = [i \in 0 .. 15 |-> ZERO]
    /\ self_cpsr = ZERO
    /\ thumb = th
    /\ self_pc = IF v = "Py7TDMI" THEN i64(ResetPC) ELSE <<0, 0, 0>>
    /\ pc = <<0, 0, 0>>
    /\ cpsr = ZERO
    /\ count = 0
    /\ mode = "idle"
    /\ calls = 0
    /\ ub = FALSE
    /\ last = NoLast
    /\ whole = NoLast

-----------------------------------------------------------------------------
(* Calls of the module-level functions check_condition and barrel_shift.   *)
(* No object takes part; the initial state holds the arguments of one call *)
(* and the action of the function leaves its result.                       *)

\* CPSR values: every combination of N, Z, C, V over three patterns of
\* bits 27..0
FnFlags ==
    {u32(f * 4096 + low[1], low[2]) :
        f \in 0 .. 15, low \in {<<0, 0>>, <<\h0FFF, \hFFFF>>, <<\h0800, \h001F>>}}

\* the values shifted: both signs, single bits at both ends of both halves,
\* and mixed patterns
ShiftValues ==
    {ZERO, MASK32, u32(0, 1), u32(0, 2), u32(\h8000, 0), u32(\h4000, 0),
     u32(\h8000, 1), u32(\h7FFF, \hFFFF), u32(1, 0), u32(0, \h8000),
     u32(0, \hFFFF), u32(\hFFFF, 0), u32(\h1234, \h5678), u32(\hCAFE, \h0001)}

\* CPSR values with C clear and set, the other bits all clear or all set
ShiftFlags ==
    {ZERO, u32(\h2000, 0), u32(\hDFFF, \hFFFF), MASK32}

InitFn ==
    /\ Constructed("Py7TDMI", EmptyMem, MemLen, FALSE)
    /\ \/ \E cond \in 0 .. 15, c \in FnFlags :
              call = [fn |-> "check_condition", cond |-> cond, cpsr |-> c,
                      done |-> FALSE]
       \/ \E val \in ShiftValues, t \in 0 .. 3, n \in 0 .. 31, c \in ShiftFlags :
              call = [fn |-> "barrel_shift", val |-> val, shift_type |-> t,
                      shift_amount |-> n, cpsr |-> c, done |-> FALSE]

check_condition_call ==
    /\ call.fn = "check_condition"
    /\ ~call.done
    /\ call' = [out |-> check_condition(call.cond, call.cpsr)] @@
                [call EXCEPT !.done = TRUE]
    /\ UNCHANGED <<memory, memLen, regs, self_pc, self_cpsr, thumb, pc, cpsr,
                   count, mode, calls, ub, last, whole, variant>>

barrel_shift_call ==
    /\ call.fn = "barrel_shift"
    /\ ~call.done
    /\ call' = [out |-> barrel_shift(call.val, call.shift_type,
                                      call.shift_amount, call.cpsr)] @@
                [call EXCEPT !.done = TRUE]
    /\ UNCHANGED <<memory, memLen, regs, self_pc, self_cpsr, thumb, pc, cpsr,
                   count, mode, calls, ub, last, whole, variant>>

NextFn ==
    \/ check_condition_call
    \/ barrel_shift_call

SpecFn == InitFn /\ [][NextFn]_vars

\* the flags of a CPSR value, read off its upper half
FlagN(c) == c[1] \div \h8000
FlagZ(c) == (c[1] \div \h4000) % 2
FlagC(c) == (c[1] \div \h2000) % 2
FlagV(c) == (c[1] \div \h1000) % 2

\* the ARM condition table, by mnemonic: EQ NE CS CC MI PL VS VC HI LS GE
\* LT GT LE AL, and AL again for the reserved code
ConditionTable(N, Z, C, V) ==
    <<Z = 1, Z = 0, C = 1, C = 0, N = 1, N = 0, V = 1, V = 0,
      C = 1 /\ Z = 0, C = 0 \/ Z = 1, N = V, N # V,
      Z = 0 /\ N = V, Z = 1 \/ N # V, TRUE, TRUE>>

\* C11: for every condition code 0..15 and every CPSR, check_condition
\* returns the entry of the ARM condition table for the flags N, Z, C, V
\* (code 15 as AL), whatever bits 27..0 of the CPSR are.
C11_ConditionTable ==
    (call.fn = "check_condition" /\ call.done) =>
        call.out = ConditionTable(FlagN(call.cpsr), FlagZ(call.cpsr),
                                  FlagC(call.cpsr), FlagV(call.cpsr))[call.cond + 1]

\* a returned call for the reserved code 15, over a CPSR with C and bits
\* 27..0 set
C11_Witness ==
    /\ call.fn = "check_condition" /\ call.done
    /\ call.cond = 15
    /\ call.cpsr = u32(\h2FFF, \hFFFF)
    /\ call.out = TRUE

\* a call of barrel_shift has returned
Shifted == call.fn = "barrel_shift" /\ call.done

\* the 32-bit value x as an int64 result
AsResult(x) == <<0, x[1], x[2]>>

\* C14: with shift amount 0, LSL returns (value, C); LSR returns
\* (0, bit 31 of value); ASR returns (0xFFFFFFFF if bit 31 of value is set,
\* else 0, and bit 31 of value); ROR returns RRX, (C << 31) | (value >> 1),
\* with carry-out bit 0 of value.
C14_ShiftByZero ==
    (Shifted /\ call.shift_amount = 0) =>
        LET val == call.val
            C == FlagC(call.cpsr)
            top == val[1] \div \h8000
            rrx == u32(C * \h8000 + val[1] \div 2,
                       (val[1] % 2) * \h8000 + val[2] \div 2)
        IN  CASE call.shift_type = 0 ->
                   call.out = [result |-> AsResult(val), carry |-> C]
              [] call.shift_type = 1 ->
                   call.out = [result |-> AsResult(ZERO), carry |-> top]
              [] call.shift_type = 2 ->
                   call.out = [result |-> AsResult(u32(top * \hFFFF, top * \hFFFF)),
                               carry |-> top]
              [] call.shift_type = 3 ->
                   call.out = [result |-> AsResult(rrx), carry |-> val[2] % 2]

\* RRX of 0x00000001 with C set: the result is 0x80000000 and bit 0 is the
\* carry-out
C14_Witness ==
    /\ Shifted /\ call.shift_amount = 0 /\ call.shift_type = 3
    /\ call.val = u32(0, 1)
    /\ call.cpsr = u32(\h2000, 0)
    /\ call.out = [result |-> <<0, \h8000, 0>>, carry |-> 1]

\* the conventional shift or rotate of the value with bits v by n in 1..31:
\* LSL, LSR, ASR (the vacated bits take bit 31), ROR
Conventional(kind, v, n) ==
    FromBits([i \in 0 .. 31 |->
        CASE kind = 0 -> IF i - n >= 0 THEN v[i - n] ELSE 0
          [] kind = 1 -> IF i + n <= 31 THEN v[i + n] ELSE 0
          [] kind = 2 -> IF i + n <= 31 THEN v[i + n] ELSE v[31]
          [] kind = 3 -> v[(i + n) % 32]])

\* the last bit shifted out: bit 32 - n for LSL, bit n - 1 for the others
LastBitOut(kind, v, n) == IF kind = 0 THEN v[32 - n] ELSE v[n - 1]

\* C16: for every shift amount n in 1..31, barrel_shift returns a result
\* in 0..2^32-1 equal to the conventional shift or rotate of the value, and
\* a carry-out equal to the last bit shifted out.
C16_ShiftByAmount ==
    (Shifted /\ call.shift_amount \in 1 .. 31) =>
        /\ call.out.result =
              AsResult(Conventional(call.shift_type, ToBits(call.val),
                                    call.shift_amount))
        /\ call.out.carry =
              LastBitOut(call.shift_type, ToBits(call.val), call.shift_amount)

-----------------------------------------------------------------------------
(* Constructed objects of both source files over program images at the    *)
(* reset address, and the step_batch calls made on them                    *)

Variants == {"Py7TDMI", "PyTDMI7"}

\* where the first fetch of a constructed object reads: self.pc of
\* src/Py7TDMI.py, regs[15] = 0 of src/PyTDMI7.py
ResetBase(v) == IF v = "Py7TDMI" THEN Index(i64(ResetPC)) ELSE 0

\* the length of the array: MemLen bytes from the reset address on
ResetLen(v) == ResetBase(v) + MemLen

RECURSIVE PutWords(_, _, _, _)
\* the words written little-endian from address a on
PutWords(mem, len, a, words) ==
    IF words = <<>> THEN mem
    ELSE PutWords(PutBytes(mem, len, a, BytesOf(Head(words))), len, a + 4,
                  Tail(words))

\* the image holding the words at the reset address
Program(v, words) == PutWords(EmptyMem, ResetLen(v), ResetBase(v), words)

\* the immediates of MOV Rd,#imm: all of 0..255 for R0, the ends and the
\* middle of the range for the other registers
MovImms(rd) == IF rd = 0 THEN 0 .. 255 ELSE {1, 2, 5, \h7F, \h80, \hFF}

\* MVN R0,#0; ADDS R1,R0,R0; CMP R0,#0; ADCS R1,R0,#1; MOVEQ R2,#1;
\* MOVMI R2,#1; MOV R15,#1; STR R1,[R0]; RSBS R3,R0,#0; LDR R15,[R0]
ResetInstrs ==
    {u32(\hE3E0, \h0000), u32(\hE090, \h1000), u32(\hE350, \h0000),
     u32(\hE2B0, \h1001), u32(\h03A0, \h2001), u32(\h43A0, \h2001),
     u32(\hE3A0, \hF001), u32(\hE580, \h1000), u32(\hE270, \h3000),
     u32(\hE590, \hF000)}

\* MOVCS R2,#1; MOVVS R2,#1; MOVHI R2,#1
ResetThird ==
    {u32(\h23A0, \h2001), u32(\h63A0, \h2001), u32(\h83A0, \h2001)}

InitReset ==
    /\ call = NoCall
    /\ \/ \E rd \in 0 .. 15 : \E imm \in MovImms(rd) :
              Constructed("Py7TDMI",
                          Program("Py7TDMI", <<Enc(14, \h3A, 0, rd, imm)>>),
                          ResetLen("Py7TDMI"), FALSE)
       \/ \E v \in Variants, w0 \in ResetInstrs, w1 \in ResetInstrs,
             w2 \in ResetThird :
              Constructed(v, Program(v, <<w0, w1, w2>>), ResetLen(v), FALSE)
       \/ \E v \in Variants, w0 \in ResetInstrs, w1 \in ResetThird :
              Constructed(v, Program(v, <<w0, w1>>), ResetLen(v), TRUE)

\* up to MaxCalls calls on the object; a run is followed up to its first
\* access outside the buffer
NextReset ==
    \/ \E n \in 1 .. MaxBatch :
         /\ variant = "Py7TDMI" /\ calls < MaxCalls /\ ~ub
         /\ step_batch_call(n) /\ UNCHANGED whole
    \/ variant = "Py7TDMI" /\ ~ub /\ cycle /\ UNCHANGED whole
    \/ variant = "Py7TDMI" /\ abort /\ UNCHANGED whole
    \/ variant = "Py7TDMI" /\ step_batch_return /\ UNCHANGED whole
    \/ \E n \in 1 .. MaxBatch :
         /\ variant = "PyTDMI7" /\ calls < MaxCalls /\ ~ub
         /\ T7_step_batch_call(n) /\ UNCHANGED whole
    \/ variant = "PyTDMI7" /\ ~ub /\ T7_cycle /\ UNCHANGED whole
    \/ variant = "PyTDMI7" /\ T7_abort /\ UNCHANGED whole
    \/ variant = "PyTDMI7" /\ T7_step_batch_return /\ UNCHANGED whole

SpecReset == InitReset /\ [][NextReset]_vars

\* the word the image mem holds at the program counter p
WordAt(mem, p) ==
    Word(MemRead(mem, Index(p)), MemRead(mem, Index(p) + 1),
         MemRead(mem, Index(p) + 2), MemRead(mem, Index(p) + 3))

\* the first step_batch(1) on a freshly constructed object of
\* src/Py7TDMI.py has returned
FirstStepDone ==
    /\ variant = "Py7TDMI" /\ ~thumb
    /\ mode = "idle" /\ calls = 1
    /\ call.fn = "step_batch" /\ call.n = 1
    /\ call.pc = i64(ResetPC)
    /\ call.cpsr = ZERO
    /\ \A i \in 0 .. 15 : call.regs[i] = ZERO

\* C12: from a freshly constructed CPU whose memory at PC holds
\* MOV Rd,#imm (condition AL, Rd in 0..14, imm in 1..255), step_batch(1)
\* leaves Rd = imm, every other register of R0..R14 0, PC advanced by 4,
\* and Z = 0 and N = 0.
C12_MovImmediateEndToEnd ==
    FirstStepDone =>
        LET w == WordAt(call.memory, call.pc)
            rd == w[2] \div 4096
            imm == w[2] % 4096
        IN  (w[1] = \hE3A0 /\ rd \in 0 .. 14 /\ imm \in 1 .. 255) =>
                /\ \A i \in 0 .. 14 :
                      regs[i] = IF i = rd THEN u32(0, imm) ELSE ZERO
                /\ self_pc = <<0, ResetPC[1], ResetPC[2] + 4>>
                /\ self_cpsr[1] \div \h4000 = 0

\* the spec's case: MOV R0,#5 at the reset address, after step_batch(1)
C12_Witness ==
    /\ FirstStepDone
    /\ WordAt(call.memory, call.pc) = u32(\hE3A0, \h0005)
    /\ regs[0] = u32(0, 5)
    /\ self_pc = <<0, \h0800, 4>>

\* C17: in src/PyTDMI7.py, from the constructed CPU in ARM mode, regs[15]
\* is a multiple of 4 at the start of every iteration's fetch.
C17_FetchAligned ==
    (variant = "PyTDMI7" /\ ~thumb /\ last.kind = "cycle") =>
        last.regs[15][2] % 4 = 0

\* C18: from the constructed CPU (CPSR = 0), in both source files, the C
\* and V bits of CPSR are 0 in every reachable state, and no word whose
\* condition is CS, VS or HI passes the condition check.
C18_CarryOverflowNeverSet ==
    /\ FlagC(cpsr) = 0 /\ FlagV(cpsr) = 0
    /\ FlagC(self_cpsr) = 0 /\ FlagV(self_cpsr) = 0
    /\ (last.kind \in {"cycle", "abort"} /\ last.passed) =>
           Bits(last.instr, 28, 4) \notin {2, 6, 8}

\* after MVN R0,#0 and ADDS R1,R0,R0, whose sum 0xFFFFFFFF + 0xFFFFFFFF
\* carries out of bit 31, the third iteration has skipped MOVCS R2,#1
C18_Witness ==
    /\ variant = "Py7TDMI"
    /\ last.kind = "cycle" /\ ~last.passed
    /\ last.instr = u32(\h23A0, \h2001)
    /\ last.regs[0] = MASK32
    /\ last.regs[1] = u32(\hFFFF, \hFFFE)
    /\ last.cpsr = Flags(8, 0)
    /\ regs[2] = ZERO

-----------------------------------------------------------------------------
(* Properties of one loop iteration of src/Py7TDMI.py, stated over last    *)
(* (the state the iteration started from and the word it fetched) and the  *)
(* state it left                                                           *)

Cycled == last.kind = "cycle"

Passed == last.kind = "cycle" /\ last.passed

\* the fields of the fetched word
OpcodeOf(i) == Bits(i, 21, 4)
RdOf(i) == Bits(i, 12, 4)
RnOf(i) == Bits(i, 16, 4)
SBitOf(i) == Bits(i, 20, 1)
IsDataProcessing(i) == Bits(i, 26, 2) = 0
IsTransfer(i) == Bits(i, 26, 2) = 1

TestOnly == {8, 9, 10, 11}
Arithmetic == {2, 3, 4, 5, 6, 7, 10, 11}
Logical == {0, 1, 12, 13, 14, 15}

\* C1: an iteration whose condition check fails leaves the registers, CPSR
\* and memory as they were, advances pc by the fetch width, and has used up
\* one of the n iterations.
C1_SkippedCycleOnlyAdvancesPC ==
    (Cycled /\ ~last.passed) =>
        /\ regs = last.regs
        /\ cpsr = last.cpsr
        /\ memory = last.memory
        /\ pc = AddI64(last.pc, IF thumb THEN 2 ELSE 4)
        /\ count = last.count - 1

\* a skipped ARM iteration (condition LT over flags where N = V) with set
\* flags and non-zero registers, the first of a batch of two
C1_Witness ==
    /\ Cycled /\ ~last.passed /\ ~thumb
    /\ Bits(last.instr, 28, 4) = 11
    /\ last.cpsr = Flags(15, 0)
    /\ last.count = 2 /\ count = 1
    /\ pc = <<0, 0, 4>>

\* C2: a passed data-processing instruction with S = 0 and an opcode other
\* than TST, TEQ, CMP, CMN leaves CPSR equal to its value before.
C2_NoSBitLeavesCPSR ==
    (/\ Passed
     /\ IsDataProcessing(last.instr)
     /\ SBitOf(last.instr) = 0
     /\ OpcodeOf(last.instr) \notin TestOnly)
        => cpsr = last.cpsr

\* the two 32-bit addends and the carry-in whose 33-bit sum an arithmetic
\* opcode computes: a - b is a + NOT b + 1
Addends(op, a, b, cin) ==
    CASE op \in {4, 11} -> <<a, b, 0>>
      [] op = 5         -> <<a, b, cin>>
      [] op \in {2, 10} -> <<a, Not32(b), 1>>
      [] op = 3         -> <<b, Not32(a), 1>>
      [] op = 6         -> <<a, Not32(b), cin>>
      [] op = 7         -> <<b, Not32(a), cin>>

\* bit 32 of x + y + c
CarryOut(x, y, c) == (x[1] + y[1] + ((x[2] + y[2] + c) \div Half)) \div Half

\* 1 when x + y + c overflows as a signed 32-bit sum
OverflowOut(x, y, c) ==
    IF BitOf(x, 31) = BitOf(y, 31) /\ BitOf(Add32(x, y, c), 31) # BitOf(x, 31)
    THEN 1 ELSE 0

\* C3: after a passed flag-setting arithmetic instruction, CPSR.C is the
\* carry out of the 33-bit computation and CPSR.V its signed overflow.
C3_ArithmeticCarryAndOverflow ==
    (/\ Passed
     /\ IsDataProcessing(last.instr)
     /\ OpcodeOf(last.instr) \in Arithmetic
     /\ (SBitOf(last.instr) = 1 \/ OpcodeOf(last.instr) \in TestOnly))
        => LET t == Addends(OpcodeOf(last.instr),
                            last.regs[RnOf(last.instr)],
                            operand2(last.instr, last.regs),
                            BitOf(last.cpsr, 29))
           IN  /\ BitOf(cpsr, 29) = CarryOut(t[1], t[2], t[3])
               /\ BitOf(cpsr, 28) = OverflowOut(t[1], t[2], t[3])

\* bit by bit, the logical opcodes
LogicBit(op, x, y) ==
    CASE op = 0  -> x * y
      [] op = 1  -> (x + y) % 2
      [] op = 12 -> IF x + y > 0 THEN 1 ELSE 0
      [] op = 13 -> y
      [] op = 14 -> x * (1 - y)
      [] op = 15 -> 1 - y

\* the carry-out of the shifter for operand 2 of the word i: the incoming C
\* for an immediate, barrel_shift's carry for the register form
ShifterCarry(i, r, c) ==
    IF Bits(i, 25, 1) = 1 THEN BitOf(c, 29)
    ELSE barrel_shift(r[Bits(i, 0, 4)], Bits(i, 5, 2), Bits(i, 7, 5), c).carry

\* C4: a passed AND, EOR, ORR, BIC, MOV or MVN writes the bitwise result to
\* Rd, leaves CPSR.C equal to the shifter's carry-out and CPSR.V unchanged.
C4_LogicalResultCarryOverflow ==
    (/\ Passed
     /\ IsDataProcessing(last.instr)
     /\ OpcodeOf(last.instr) \in Logical)
        => LET a == last.regs[RnOf(last.instr)]
               b == operand2(last.instr, last.regs)
           IN  /\ regs[RdOf(last.instr)] =
                    FromBits([k \in 0 .. 31 |->
                        LogicBit(OpcodeOf(last.instr), BitOf(a, k), BitOf(b, k))])
               /\ BitOf(cpsr, 29) = ShifterCarry(last.instr, last.regs, last.cpsr)
               /\ BitOf(cpsr, 28) = BitOf(last.cpsr, 28)

\* C5: a passed TST, TEQ, CMP or CMN (bits 27..26 = 00) changes no register
\* and no memory byte: only the flags of CPSR change and pc advances.
C5_TestOnlyWritesNoRegister ==
    (/\ Passed
     /\ IsDataProcessing(last.instr)
     /\ OpcodeOf(last.instr) \in TestOnly)
        => /\ regs = last.regs
           /\ memory = last.memory
           /\ Bits(cpsr, 0, 16) = Bits(last.cpsr, 0, 16)
           /\ Bits(cpsr, 16, 12) = Bits(last.cpsr, 16, 12)
           /\ pc = AddI64(last.pc, IF thumb THEN 2 ELSE 4)

\* a passed CMN R1,R0,#1 whose result (0) differs from what R1 holds and
\* which changed the flags
C5_Witness ==
    /\ Passed
    /\ IsDataProcessing(last.instr)
    /\ OpcodeOf(last.instr) = 11
    /\ RdOf(last.instr) = 1
    /\ last.regs[0] = MASK32
    /\ regs[1] = u32(0, 1)
    /\ cpsr # last.cpsr

\* the address a word access at the 32-bit value a starts at, when the four
\* bytes lie inside the buffer
InRange(a) == ~word_oob(memLen, a)

\* C7: after a passed STR Rd,[Rn] inside memory, the four bytes at
\* A = Rn (before) are the little-endian bytes of v = Rd (before) and no
\* other byte has changed.
C7_StoreWritesLittleEndian ==
    (/\ Passed
     /\ IsTransfer(last.instr)
     /\ SBitOf(last.instr) = 0
     /\ InRange(last.regs[RnOf(last.instr)]))
        => LET A == Index(i64(last.regs[RnOf(last.instr)]))
               v == last.regs[RdOf(last.instr)]
           IN  \A x \in 0 .. (memLen - 1) :
                 MemRead(memory, x) =
                    IF x \in A .. (A + 3) THEN Bits(v, 8 * (x - A), 8)
                                          ELSE MemRead(last.memory, x)

\* C8: after a passed LDR Rd,[Rn] inside memory, Rd is the little-endian
\* word at A = Rn (before), also when Rd = Rn, and memory is unchanged.
C8_LoadReadsLittleEndian ==
    (/\ Passed
     /\ IsTransfer(last.instr)
     /\ SBitOf(last.instr) = 1
     /\ InRange(last.regs[RnOf(last.instr)]))
        => LET A == Index(i64(last.regs[RnOf(last.instr)]))
           IN  /\ regs[RdOf(last.instr)] =
                    Word(MemRead(last.memory, A), MemRead(last.memory, A + 1),
                         MemRead(last.memory, A + 2), MemRead(last.memory, A + 3))
               /\ memory = last.memory

\* C9: an iteration whose fetch or word access touches a byte outside the
\* buffer ends the batch with a fault, and registers and memory are as they
\* were before that iteration.
C9_OutOfBoundsFaults ==
    (last.kind \in {"cycle", "abort"} /\ last.oob) =>
        /\ mode = "crashed"
        /\ regs = last.regs
        /\ memory = last.memory

\* the 32-bit result of the data-processing opcode op on a and b with the
\* incoming carry cin: a sum for the arithmetic opcodes, bit by bit for the
\* logical ones (TST as AND, TEQ as EOR)
ResultOf(op, a, b, cin) ==
    IF op \in Arithmetic
    THEN LET t == Addends(op, a, b, cin) IN Add32(t[1], t[2], t[3])
    ELSE LET lop == IF op = 8 THEN 0 ELSE IF op = 9 THEN 1 ELSE op
         IN  FromBits([k \in 0 .. 31 |-> LogicBit(lop, BitOf(a, k), BitOf(b, k))])

\* the single step_batch(2) call on the object has run both of its
\* iterations, from address 0 in ARM mode, inside the buffer
TwoCyclesDone ==
    /\ variant = "Py7TDMI" /\ ~thumb
    /\ calls = 1 /\ call.fn = "step_batch" /\ call.n = 2
    /\ call.pc = <<0, 0, 0>>
    /\ mode # "crashed" /\ count = 0 /\ ~ub

\* C13: after a passed flag-setting data-processing instruction (S = 1 or
\* TST, TEQ, CMP, CMN), CPSR.N is bit 31 of the 32-bit result and CPSR.Z is
\* 1 exactly when the result is 0; and from R0 = v in 0..255, the two cycles
\* SUB R1,R0,#v; CMP R1,#0 leave R1 = 0 and Z = 1.
C13_FlagsNZ ==
    /\ (/\ Passed
        /\ IsDataProcessing(last.instr)
        /\ (SBitOf(last.instr) = 1 \/ OpcodeOf(last.instr) \in TestOnly))
           => LET result == ResultOf(OpcodeOf(last.instr),
                                     last.regs[RnOf(last.instr)],
                                     operand2(last.instr, last.regs),
                                     FlagC(last.cpsr))
              IN  /\ FlagN(cpsr) = result[1] \div \h8000
                  /\ (FlagZ(cpsr) = 1) <=> (result = ZERO)
    /\ (/\ TwoCyclesDone
        /\ call.regs[0][1] = 0 /\ call.regs[0][2] \in 0 .. 255
        /\ <<WordAt(call.memory, <<0, 0, 0>>), WordAt(call.memory, <<0, 0, 4>>)>>
             = SubCmp(call.regs[0][2]))
           => /\ regs[1] = ZERO
              /\ FlagZ(cpsr) = 1

\* the spec's case: R0 = 5, SUB R1,R0,#5 and CMP R1,#0 have both run, from
\* a CPSR with N, C and V set and R1 = 1
C13_Witness ==
    /\ TwoCyclesDone
    /\ call.regs[0] = u32(0, 5) /\ call.regs[1] = u32(0, 1)
    /\ call.cpsr = Flags(11, 0)
    /\ WordAt(call.memory, <<0, 0, 0>>) = u32(\hE240, \h1005)
    /\ last.instr = u32(\hE351, \h0000)
    /\ regs[1] = ZERO
    /\ cpsr = Flags(4, 0)

\* the two words of the program are ADD Rt,Ra,Rb and SUB Ru,Rt,Rb in
\* register form without shift, condition AL, for the registers q =
\* <<Ra, Rb, Rt, Ru>>
IsAddSub(w0, w1, q) ==
    /\ w0 = u32(\hE080 + q[1], q[3] * 4096 + q[2])
    /\ w1 = u32(\hE040 + q[3], q[4] * 4096 + q[2])

\* C15: for a and b in distinct registers Ra, Rb, the two cycles
\* ADD Rt,Ra,Rb; SUB Ru,Rt,Rb (Rt and Ru neither Rb nor R15) leave Ru = a,
\* also when a + b exceeds 2^32 - 1.
C15_AddSubInverse ==
    TwoCyclesDone =>
        LET w0 == WordAt(call.memory, <<0, 0, 0>>)
            w1 == WordAt(call.memory, <<0, 0, 4>>)
            q == <<w0[1] % 16, w0[2] % 16, w0[2] \div 4096, w1[2] \div 4096>>
        IN  (/\ IsAddSub(w0, w1, q)
             /\ q[1] # q[2] /\ q[3] # q[2] /\ q[4] # q[2]
             /\ q[3] # 15 /\ q[4] # 15)
                => regs[q[4]] = call.regs[q[1]]

\* a = 0xFFFFFFFF in R0 and b = 0xCAFE0001 in R1, whose sum wraps around:
\* ADD R0,R0,R1 has overwritten a, SUB R3,R0,R1 has brought it back
C15_Witness ==
    /\ TwoCyclesDone
    /\ IsAddSub(WordAt(call.memory, <<0, 0, 0>>),
                WordAt(call.memory, <<0, 0, 4>>), <<0, 1, 0, 3>>)
    /\ call.regs[0] = MASK32 /\ call.regs[1] = u32(\hCAFE, \h0001)
    /\ regs[0] = u32(\hCAFE, \h0000)
    /\ regs[3] = MASK32

\* C19: a passed B (bits 27..24 = 1010) leaves all registers, CPSR and
\* memory unchanged and changes only pc; a passed BL (bits 27..24 = 1011)
\* changes, besides pc, only R14.
C19_BranchChangesOnlyControl ==
    (Passed /\ Bits(last.instr, 24, 4) \in {10, 11}) =>
        /\ \A i \in 0 .. 15 :
              (Bits(last.instr, 24, 4) = 10 \/ i # 14) => regs[i] = last.regs[i]
        /\ cpsr = last.cpsr
        /\ memory = last.memory

\* C20: in thumb mode, from a CPSR whose Z bit is 0, every iteration of
\* step_batch(n) fails the condition check: registers, CPSR and memory stay
\* as they were at the call, and pc has advanced by 2 for each iteration
\* run, by 2n at the return.
C20_ThumbOnlyAdvancesPC ==
    (thumb /\ call.fn = "step_batch" /\ FlagZ(call.cpsr) = 0) =>
        /\ regs = call.regs
        /\ memory = call.memory
        /\ cpsr = call.cpsr
        /\ last.kind = "cycle" => ~last.passed
        /\ pc = AddI64(call.pc, 2 * (call.n - count))
        /\ mode = "idle" =>
              /\ self_pc = AddI64(call.pc, 2 * call.n)
              /\ self_cpsr = call.cpsr

\* step_batch(2) has returned in thumb mode over an image whose bytes are
\* MOV R0,#5 (condition AL as an ARM word), from a CPSR with N, C, V set
C20_Witness ==
    /\ thumb /\ mode = "idle"
    /\ call.fn = "step_batch" /\ call.n = 2
    /\ call.cpsr = Flags(11, \h1F)
    /\ call.pc = <<0, 0, 0>>
    /\ WordAt(call.memory, call.pc) = u32(\hE3A0, \h0005)
    /\ last.instr = u32(0, \hE3A0)
    /\ self_pc = <<0, 0, 4>>

-----------------------------------------------------------------------------
(* Branch-with-link of src/PyTDMI7.py                                      *)

\* the 24-bit offset field of the word i as a signed number of words
SignedOffset(i) ==
    IF BitOf(i, 23) = 1 THEN Bits(i, 0, 23) - 2 ^ 23 ELSE Bits(i, 0, 23)

\* (a + k) mod 2^32 for a 32-bit a and a signed number k
Plus(a, k) ==
    LET lo == a[2] + k
        hi == a[1] + (lo \div Half)
    IN  u32(hi % Half, lo % Half)

\* C6: after a passed BL at address A (fetched inside memory), regs[15] is
\* (A + 4 + (sign_extend_24(offset) << 2)) mod 2^32 and regs[14] is A + 4.
C6_BranchWithLink ==
    (/\ Passed
     /\ ~last.oob
     /\ Bits(last.instr, 24, 4) = 11)
        => /\ regs[15] = Plus(last.regs[15], 4 + 4 * SignedOffset(last.instr))
           /\ regs[14] = Plus(last.regs[15], 4)

=============================================================================
